---------------------------- MODULE Spec2Model ----------------------------
(***************************************************************************)
(* Model of src/minesweeper.py: the Minesweeper board oracle, the Sentence *)
(* class and the MinesweeperAI knowledge base with its inference loop.     *)
(*                                                                         *)
(* add_knowledge is modelled statement by statement: every call of         *)
(* MinesweeperAI.mark_mine / mark_safe and every append to `knowledge` is  *)
(* one step, so the states between them are states of the model.           *)
(*                                                                         *)
(* Spec          add_knowledge calls with truthful observations            *)
(* SpecLive      the same, a call that has begun keeps running             *)
(* SpecMoves     add_knowledge calls and the two move queries              *)
(* SpecReobserve observations of distinct cells, then repeated ones        *)
(* SpecAnyOrder  add_knowledge with its loops visiting in any order        *)
(* SpecSentence  a Sentence object and its two mutators                    *)
(***************************************************************************)
EXTENDS Integers, FiniteSets, Sequences, TLC

\* Board dimensions (MinesweeperAI.height / width) and the size of the
\* explored game: mines laid out, cells revealed.
Height == 2
Width == 3
MaxMines == 2
MaxMoves == 2

\* The largest cell set of a Sentence constructed on its own.
MaxCells == 3

\* The number of add_knowledge calls made again for a cell already observed.
MaxReobserve == 1

\* The cells revealed when the loops of add_knowledge visit in any order.
MaxCalls == 3

VARIABLES
    layout,      \* Minesweeper.mines: the ground-truth mine cells
    moves_made,  \* MinesweeperAI.moves_made
    mines,       \* MinesweeperAI.mines
    safes,       \* MinesweeperAI.safes
    knowledge,   \* MinesweeperAI.knowledge: list of Sentences
    pc,          \* position inside add_knowledge, "idle" between calls,
                 \* the name of a move query that has just returned
    cell,        \* add_knowledge: parameter `cell`
    count,       \* add_knowledge: parameter/local `count`
    inferred,    \* add_knowledge: local `inferred`
    i,           \* resolution pass: index of `sentence` in knowledge
    pending,     \* cells of `sentence.cells.copy()` not yet iterated
    j,           \* subset pass: index of `sentence`
    k,           \* subset pass: index of `other`
    ret,         \* value a move query has just returned
    self,        \* Sentence.mark_mine / mark_safe: the Sentence `self`
    reobserved,  \* number of add_knowledge calls begun for a cell that was
                 \* in moves_made already
    must,        \* resolution pass in any order: the sentences that had one
                 \* of the two resolvable forms when the pass began
    len0,        \* subset pass in any order: len(knowledge) when it began
    start,       \* the knowledge base the running call started from
    first        \* <<mines, safes>> the call gave when first run from start

vars == <<layout, moves_made, mines, safes, knowledge, pc, cell, count,
          inferred, i, pending, j, k, ret, self, reobserved, must, len0,
          start, first>>

kbvars == <<moves_made, mines, safes, knowledge>>
locals == <<cell, count, inferred, i, pending, j, k>>

\* add_knowledge with its loops visiting in any order, run twice
order == <<must, len0, start, first>>

\* state that no statement of MinesweeperAI reads or writes
aux == <<self, reobserved, order>>

\* Python's None
None == <<>>

Cells == (0 .. Height - 1) \X (0 .. Width - 1)

\* Cells within one row and column of c, not c itself, in bounds.
Neighbors(c) ==
    {n \in Cells : /\ n # c
                   /\ n[1] \in (c[1] - 1) .. (c[1] + 1)
                   /\ n[2] \in (c[2] - 1) .. (c[2] + 1)}

\* Minesweeper.is_mine / Minesweeper.nearby_mines over the ground truth
is_mine(c) == c \in layout

nearby_mines(c) == Cardinality({n \in Neighbors(c) : is_mine(n)})

-----------------------------------------------------------------------------
\* class Sentence

Sentence(cells, cnt) == [cells |-> cells, count |-> cnt]

known_mines(s) == IF Cardinality(s.cells) = s.count THEN s.cells ELSE {}

known_safes(s) == IF s.count = 0 THEN s.cells ELSE {}

\* Sentence_mark_mine with `self.count -= 1` outside the `if`
Sentence_mark_mine_unguarded(s, c) ==
    [cells |-> s.cells \ {c}, count |-> s.count - 1]

\* Sentence.mark_mine, lines 116-124
Sentence_mark_mine(s, c) ==
    IF c \in s.cells
      THEN [cells |-> s.cells \ {c}, count |-> s.count - 1]
      ELSE s

\* Sentence.mark_safe, lines 126-134
Sentence_mark_safe(s, c) ==
    IF c \in s.cells
      THEN [cells |-> s.cells \ {c}, count |-> s.count]
      ELSE s

-----------------------------------------------------------------------------
\* class MinesweeperAI: mark_mine / mark_safe on the knowledge base
\* kb = [mines, safes, knowledge]

KB == [mines |-> mines, safes |-> safes, knowledge |-> knowledge]

\* remove_mine without `sentence.count -= 1`
remove_mine_no_decrement(s, c) ==
    IF c \in s.cells
      THEN [cells |-> s.cells \ {c}, count |-> s.count]
      ELSE s

\* remove_mine without `sentence.cells.remove(c)`
remove_mine_no_remove(s, c) ==
    IF c \in s.cells
      THEN [cells |-> s.cells, count |-> s.count - 1]
      ELSE s

\* the loop body of MinesweeperAI.mark_mine on one sentence
remove_mine(s, c) ==
    IF c \in s.cells
      THEN [cells |-> s.cells \ {c}, count |-> s.count - 1]
      ELSE s

\* remove_safe with the `sentence.count -= 1` of mark_mine copied in
remove_safe_decrement(s, c) ==
    IF c \in s.cells
      THEN [cells |-> s.cells \ {c}, count |-> s.count - 1]
      ELSE s

\* remove_safe without `sentence.cells.remove(c)`
remove_safe_no_remove(s, c) == s

\* the loop body of MinesweeperAI.mark_safe on one sentence
remove_safe(s, c) ==
    IF c \in s.cells
      THEN [cells |-> s.cells \ {c}, count |-> s.count]
      ELSE s

\* remove_mine with `sentence.count -= 1` outside the `if c == cell`
remove_mine_unconditional(s, c) ==
    [cells |-> s.cells \ {c}, count |-> s.count - 1]

\* mark_mine applying a changed loop body
mark_mine_unconditional(kb, c) ==
    [mines     |-> kb.mines \cup {c},
     safes     |-> kb.safes,
     knowledge |-> [n \in 1 .. Len(kb.knowledge) |->
                        remove_mine_unconditional(kb.knowledge[n], c)]]

mark_mine(kb, c) ==
    [mines     |-> kb.mines \cup {c},
     safes     |-> kb.safes,
     knowledge |-> [n \in 1 .. Len(kb.knowledge) |->
                        remove_mine(kb.knowledge[n], c)]]

\* mark_safe with `self.safes = {cell}` for `self.safes.add(cell)`
mark_safe_replacing(kb, c) ==
    [mines     |-> kb.mines,
     safes     |-> {c},
     knowledge |-> [n \in 1 .. Len(kb.knowledge) |->
                        remove_safe(kb.knowledge[n], c)]]

mark_safe(kb, c) ==
    [mines     |-> kb.mines,
     safes     |-> kb.safes \cup {c},
     knowledge |-> [n \in 1 .. Len(kb.knowledge) |->
                        remove_safe(kb.knowledge[n], c)]]

SetKB(kb) ==
    /\ mines' = kb.mines
    /\ safes' = kb.safes
    /\ knowledge' = kb.knowledge

-----------------------------------------------------------------------------
\* Reflections of the board. Neighbors is preserved by both, and the code
\* reads coordinates only through it, so a layout and its mirror images
\* produce mirrored runs: one layout of each class is explored.
flip_rows(c) == <<Height - 1 - c[1], c[2]>>

flip_cols(c) == <<c[1], Width - 1 - c[2]>>

RECURSIVE layout_code(_, _)
layout_code(L, n) ==
    IF n = Height * Width THEN 0
    ELSE (IF <<n \div Width, n % Width>> \in L THEN 2 ^ n ELSE 0)
         + layout_code(L, n + 1)

canonical(L) ==
    /\ layout_code(L, 0) <= layout_code({flip_rows(c) : c \in L}, 0)
    /\ layout_code(L, 0) <= layout_code({flip_cols(c) : c \in L}, 0)
    /\ layout_code(L, 0)
         <= layout_code({flip_rows(flip_cols(c)) : c \in L}, 0)

\* The boards explored: sparse ones, with at most MaxMines mines, and dense
\* ones, whose cells that are not mines can all be revealed in MaxMoves calls.
Layouts ==
    {L \in SUBSET Cells : /\ \/ Cardinality(L) <= MaxMines
                             \/ Cardinality(Cells \ L) <= MaxMoves
                          /\ canonical(L)}

Init ==
    /\ layout \in Layouts
    /\ moves_made = {}
    /\ mines = {}
    /\ safes = {}
    /\ knowledge = <<>>
    /\ pc = "idle"
    /\ cell = None
    /\ count = 0
    /\ inferred = FALSE
    /\ i = 0
    /\ pending = {}
    /\ j = 0
    /\ k = 0
    /\ ret = None
    /\ self = None
    /\ reobserved = 0
    /\ must = {}
    /\ len0 = 0
    /\ start = None
    /\ first = None

-----------------------------------------------------------------------------
\* AddKnowledge without the `self.mark_safe(cell)` of line 202
AddKnowledge_no_mark_safe(c) ==
    /\ pc = "idle"
    /\ c \notin layout
    /\ c \notin moves_made
    /\ Cardinality(moves_made) < MaxMoves
    /\ moves_made' = moves_made \cup {c}
    /\ cell' = c
    /\ count' = nearby_mines(c)
    /\ pc' = "build"
    /\ UNCHANGED <<aux, layout, mines, safes, knowledge, inferred, i, pending,
                   j, k, ret>>

\* add_knowledge(cell, count), lines 198-202: the board reveals a cell that
\* is not a mine and was not revealed before, with its true count.
AddKnowledge(c) ==
    /\ pc = "idle"
    /\ c \notin layout
    /\ c \notin moves_made
    /\ Cardinality(moves_made) < MaxMoves
    /\ moves_made' = moves_made \cup {c}
    /\ SetKB(mark_safe(KB, c))
    /\ cell' = c
    /\ count' = nearby_mines(c)
    /\ pc' = "build"
    /\ UNCHANGED <<aux, layout, inferred, i, pending, j, k, ret>>

\* lines 207-224
neighboring_mines(c) == {n \in Neighbors(c) : n \in mines}

\* neighboring_suspects with `if neighbor not in self.safes:` for the `elif`
neighboring_suspects_with_mines(c) ==
    {n \in Neighbors(c) : n \notin safes}

\* neighboring_suspects with `else:` for `elif neighbor not in self.safes:`
neighboring_suspects_with_safes(c) ==
    {n \in Neighbors(c) : n \notin mines}

\* lines 221-222
neighboring_suspects(c) ==
    {n \in Neighbors(c) : n \notin mines /\ n \notin safes}

\* adjusted_count without the `count -= 1` of line 219
adjusted_count_unadjusted(c, cnt) == cnt

\* lines 218-219
adjusted_count(c, cnt) == cnt - Cardinality(neighboring_mines(c))

\* lines 207-232: build the new sentence, enter the loop
BuildSentence ==
    /\ pc = "build"
    /\ count' = adjusted_count(cell, count)
    /\ knowledge' =
          IF neighboring_suspects(cell) # {}
            THEN Append(knowledge,
                        Sentence(neighboring_suspects(cell),
                                 adjusted_count(cell, count)))
            ELSE knowledge
    /\ inferred' = TRUE
    /\ pc' = "while"
    /\ UNCHANGED <<aux, layout, moves_made, mines, safes, cell, i, pending, j,
                   k, ret>>

\* WhileInferred without the `inferred = False` of line 234
WhileInferred_no_reset ==
    /\ pc = "while"
    /\ IF inferred
         THEN /\ i' = 1
              /\ pc' = "resolve"
              /\ UNCHANGED <<cell, count, inferred, pending, j, k>>
         ELSE /\ pc' = "idle"
              /\ cell' = None
              /\ count' = 0
              /\ inferred' = FALSE
              /\ i' = 0
              /\ pending' = {}
              /\ j' = 0
              /\ k' = 0
    /\ UNCHANGED <<aux, layout, moves_made, mines, safes, knowledge, ret>>

\* line 233-234: `while inferred`; falling out of the loop returns
WhileInferred ==
    /\ pc = "while"
    /\ IF inferred
         THEN /\ inferred' = FALSE
              /\ i' = 1
              /\ pc' = "resolve"
              /\ UNCHANGED <<cell, count, pending, j, k>>
         ELSE /\ pc' = "idle"
              /\ cell' = None
              /\ count' = 0
              /\ inferred' = FALSE
              /\ i' = 0
              /\ pending' = {}
              /\ j' = 0
              /\ k' = 0
    /\ UNCHANGED <<aux, layout, moves_made, mines, safes, knowledge, ret>>

\* lines 240 and 246: the tests of the resolution pass on one sentence
all_mines(s) == Cardinality(s.cells) = s.count

\* all_safes as `sentence.count == 0 and len(sentence.cells) == 1`
all_safes_single(s) == s.count = 0 /\ Cardinality(s.cells) = 1

\* line 246
all_safes(s) == s.count = 0

\* The `for sentence in self.knowledge` loop of line 237 from index n on:
\* the first sentence whose cells one of the two inner loops iterates, or
\* Len(kn) + 1 when the loop runs out. A sentence with no cells, or with
\* neither test true, changes nothing.
RECURSIVE next_resolved(_, _)
next_resolved(kn, n) ==
    IF n > Len(kn) THEN n
    ELSE IF kn[n].cells # {} /\ (all_mines(kn[n]) \/ all_safes(kn[n])) THEN n
    ELSE next_resolved(kn, n + 1)

\* lines 237-240, 246: advance to the next sentence that resolves cells
ResolveSentence ==
    /\ pc = "resolve"
    /\ LET n == next_resolved(knowledge, i) IN
         IF n > Len(knowledge)
           THEN /\ pc' = "subset"
                /\ i' = 0
                /\ j' = 1
                /\ k' = 1
                /\ UNCHANGED pending
           ELSE /\ i' = n
                /\ pending' = knowledge[n].cells
                /\ pc' = IF all_mines(knowledge[n]) THEN "mines" ELSE "safes"
                /\ UNCHANGED <<j, k>>
    /\ UNCHANGED <<aux, layout, moves_made, mines, safes, knowledge, cell,
                   count, inferred, ret>>

\* lines 241-243: one iteration of `for mine in sentence.cells.copy()`;
\* after the last one, the test of line 246 on the same sentence
MarkMines ==
    /\ pc = "mines"
    /\ \E m \in pending :
         LET kb == mark_mine(KB, m)
             s  == kb.knowledge[i]
         IN  /\ inferred' = TRUE
             /\ SetKB(kb)
             /\ IF pending \ {m} # {}
                  THEN /\ pending' = pending \ {m}
                       /\ UNCHANGED <<pc, i>>
                  ELSE IF all_safes(s) /\ s.cells # {}
                  THEN /\ pending' = s.cells
                       /\ pc' = "safes"
                       /\ UNCHANGED i
                  ELSE /\ pending' = {}
                       /\ pc' = "resolve"
                       /\ i' = i + 1
    /\ UNCHANGED <<aux, layout, moves_made, cell, count, j, k, ret>>

\* MarkSafes without the `inferred = True` of line 248
MarkSafes_no_inferred ==
    /\ pc = "safes"
    /\ \E c \in pending :
         /\ SetKB(mark_safe(KB, c))
         /\ IF pending \ {c} # {}
              THEN /\ pending' = pending \ {c}
                   /\ UNCHANGED <<pc, i>>
              ELSE /\ pending' = {}
                   /\ pc' = "resolve"
                   /\ i' = i + 1
    /\ UNCHANGED <<aux, layout, moves_made, cell, count, inferred, j, k, ret>>

\* lines 247-249: one iteration of `for safe in sentence.cells.copy()`
MarkSafes ==
    /\ pc = "safes"
    /\ \E c \in pending :
         /\ inferred' = TRUE
         /\ SetKB(mark_safe(KB, c))
         /\ IF pending \ {c} # {}
              THEN /\ pending' = pending \ {c}
                   /\ UNCHANGED <<pc, i>>
              ELSE /\ pending' = {}
                   /\ pc' = "resolve"
                   /\ i' = i + 1
    /\ UNCHANGED <<aux, layout, moves_made, cell, count, j, k, ret>>

-----------------------------------------------------------------------------
\* Subset pass, lines 255-273

\* line 271: `new_sentence not in self.knowledge` uses Sentence.__eq__
InKnowledge(kn, s) == \E n \in 1 .. Len(kn) : kn[n] = s

\* lines 263-267
is_subset_of(sentence, other) ==
    /\ sentence.cells \subseteq other.cells
    /\ sentence.cells # {}
    /\ sentence.count > 0

\* new_sentence with `new_count = other.count`
new_sentence_same_count(sentence, other) ==
    Sentence(other.cells \ sentence.cells, other.count)

\* lines 268-270
new_sentence(sentence, other) ==
    Sentence(other.cells \ sentence.cells, other.count - sentence.count)

\* lines 259-271: does the pair (kn[a], kn[b]) append a sentence?
Appends(kn, a, b) ==
    /\ kn[a] # kn[b]
    /\ is_subset_of(kn[a], kn[b])
    /\ ~InKnowledge(kn, new_sentence(kn[a], kn[b]))

\* next_append with the inner loop over the later sentences only
\* (`for other in self.knowledge[a + 1:]`)
RECURSIVE next_append_later_only(_, _, _)
next_append_later_only(kn, a, b) ==
    IF a > Len(kn) THEN <<a, 1>>
    ELSE IF b > Len(kn) THEN next_append_later_only(kn, a + 1, a + 2)
    ELSE IF Appends(kn, a, b) THEN <<a, b>>
    ELSE next_append_later_only(kn, a, b + 1)

\* The two nested `for` loops over the list, from the pair (a, b) on: the
\* first pair that appends, or <<Len(kn) + 1, 1>> when the loops run out.
\* The list does not change between two appends.
RECURSIVE next_append(_, _, _)
next_append(kn, a, b) ==
    IF a > Len(kn) THEN <<a, 1>>
    ELSE IF b > Len(kn) THEN next_append(kn, a + 1, 1)
    ELSE IF Appends(kn, a, b) THEN <<a, b>>
    ELSE next_append(kn, a, b + 1)

SubsetPass ==
    /\ pc = "subset"
    /\ LET p == next_append(knowledge, j, k) IN
         IF p[1] > Len(knowledge)
           THEN /\ pc' = "while"
                /\ j' = 0
                /\ k' = 0
                /\ UNCHANGED <<knowledge, inferred>>
           ELSE /\ knowledge' =
                     Append(knowledge,
                            new_sentence(knowledge[p[1]], knowledge[p[2]]))
                /\ inferred' = TRUE
                /\ j' = p[1]
                /\ k' = p[2] + 1
                /\ UNCHANGED pc
    /\ UNCHANGED <<aux, layout, moves_made, mines, safes, cell, count, i,
                   pending, ret>>

-----------------------------------------------------------------------------
\* One step of a running add_knowledge call
Step ==
    \/ BuildSentence
    \/ WhileInferred
    \/ ResolveSentence
    \/ MarkMines
    \/ MarkSafes
    \/ SubsetPass

Next ==
    \/ \E c \in Cells : AddKnowledge(c)
    \/ Step

\* Sequences of add_knowledge calls with truthful observations
Spec == Init /\ [][Next]_vars

\* The program is single-threaded and add_knowledge is synchronous: a call
\* that has begun keeps executing its statements until it returns.
SpecLive == Init /\ [][Next]_vars /\ WF_vars(Step)

-----------------------------------------------------------------------------
\* safe_moves without the `safe_move not in self.moves_made` test
safe_moves_ignoring_made ==
    {c \in safes : c \notin mines}

\* make_safe_move, lines 284-286: the first cell of `safes` (a set, iterated
\* in no particular order) that is neither a mine nor a move made; None when
\* the loop runs out.
safe_moves ==
    {c \in safes : c \notin mines /\ c \notin moves_made}

\* MakeSafeMove recording the move it returns in moves_made
MakeSafeMove_recording ==
    /\ pc = "idle"
    /\ IF safe_moves # {} THEN ret' \in safe_moves ELSE ret' = None
    /\ moves_made' = IF ret' = None THEN moves_made
                                    ELSE moves_made \cup {ret'}
    /\ pc' = "make_safe_move"
    /\ UNCHANGED <<aux, layout, mines, safes, knowledge, locals>>

MakeSafeMove ==
    /\ pc = "idle"
    /\ IF safe_moves # {} THEN ret' \in safe_moves ELSE ret' = None
    /\ pc' = "make_safe_move"
    /\ UNCHANGED <<aux, layout, kbvars, locals>>

\* moves without the `(i, j) not in self.mines` test
moves_ignoring_mines ==
    {c \in Cells : c \notin moves_made}

\* make_random_move, lines 295-301: random.choice(moves), None when empty
moves ==
    {c \in Cells : c \notin moves_made /\ c \notin mines}

MakeRandomMove ==
    /\ pc = "idle"
    /\ IF moves # {} THEN ret' \in moves ELSE ret' = None
    /\ pc' = "make_random_move"
    /\ UNCHANGED <<aux, layout, kbvars, locals>>

\* The caller has taken the value a query returned; the next call can begin.
Resume ==
    /\ pc \in {"make_safe_move", "make_random_move"}
    /\ pc' = "idle"
    /\ ret' = None
    /\ UNCHANGED <<aux, layout, kbvars, locals>>

NextMoves ==
    \/ Next
    \/ MakeSafeMove
    \/ MakeRandomMove
    \/ Resume

\* add_knowledge calls interleaved with the two move queries
SpecMoves == Init /\ [][NextMoves]_vars

-----------------------------------------------------------------------------
\* add_knowledge(cell, count) called again for a cell of moves_made, with the
\* same true count: lines 198-202 run as for any cell.
Reobserve(c) ==
    /\ pc = "idle"
    /\ c \in moves_made
    /\ reobserved < MaxReobserve
    /\ reobserved' = reobserved + 1
    /\ moves_made' = moves_made \cup {c}
    /\ SetKB(mark_safe(KB, c))
    /\ cell' = c
    /\ count' = nearby_mines(c)
    /\ pc' = "build"
    /\ UNCHANGED <<self, order, layout, inferred, i, pending, j, k, ret>>

\* a first observation of a cell, before any cell is observed again
Observe(c) == reobserved = 0 /\ AddKnowledge(c)

NextReobserve ==
    \/ \E c \in Cells : Observe(c)
    \/ \E c \in Cells : Reobserve(c)
    \/ Step

\* Truthful observations of distinct cells, then observations repeated
SpecReobserve == Init /\ [][NextReobserve]_vars

-----------------------------------------------------------------------------
\* add_knowledge with its `for` loops visiting in any order: the sentences of
\* the resolution pass (line 237) and the pairs of the subset pass (lines
\* 255-256). Each call is run twice from the same knowledge base, the two
\* runs choosing their orders independently; the next call starts from what
\* the second run left.

\* a sentence whose cells one of the loops of lines 241 and 247 iterates
resolvable(s) == s.cells # {} /\ (all_mines(s) \/ all_safes(s))

\* the position of a cell when the board is read row by row
reading_order(c) == c[1] * Width + c[2]

\* lines 198-202, remembering the knowledge base the loops start from. The
\* calls explored reveal up to MaxCalls cells of the board, row by row.
ObserveAnyOrder(c) ==
    /\ pc = "idle"
    /\ c \notin layout
    /\ c \notin moves_made
    /\ Cardinality(moves_made) < MaxCalls
    /\ \A m \in moves_made : reading_order(m) < reading_order(c)
    /\ moves_made' = moves_made \cup {c}
    /\ SetKB(mark_safe(KB, c))
    /\ cell' = c
    /\ count' = nearby_mines(c)
    /\ pc' = "build"
    /\ start' = mark_safe(KB, c)
    /\ first' = None
    /\ UNCHANGED <<layout, inferred, i, pending, j, k, ret, self, reobserved,
                   must, len0>>

\* lines 233-234. A pass visits every sentence of the list; a sentence that
\* is resolvable when the pass begins stays so until its cells are marked,
\* so whatever the order it is resolved in this pass. When the first run
\* falls out of the loop its result is kept and the call is run again.
WhileAnyOrder ==
    /\ pc = "while"
    /\ IF inferred
         THEN /\ inferred' = FALSE
              /\ must' = {n \in 1 .. Len(knowledge) :
                              resolvable(knowledge[n])}
              /\ pc' = "resolve"
              /\ UNCHANGED <<mines, safes, knowledge, cell, count, first>>
         ELSE IF first = None
         THEN /\ first' = <<mines, safes>>
              /\ SetKB(start)
              /\ count' = nearby_mines(cell)
              /\ pc' = "build"
              /\ UNCHANGED <<cell, inferred, must>>
         ELSE /\ pc' = "idle"
              /\ cell' = None
              /\ count' = 0
              /\ UNCHANGED <<mines, safes, knowledge, inferred, must, first>>
    /\ UNCHANGED <<layout, moves_made, i, pending, j, k, ret, self,
                   reobserved, len0, start>>

\* lines 241-243 and 247-249: the marking loops over a copy of the cells.
\* Two marks of different cells commute, so the result does not depend on
\* the order in which the copy is iterated.
RECURSIVE mark_mines(_, _)
mark_mines(kb, cs) ==
    IF cs = {} THEN kb
    ELSE LET c == CHOOSE x \in cs : TRUE
         IN  mark_mines(mark_mine(kb, c), cs \ {c})

RECURSIVE mark_safes(_, _)
mark_safes(kb, cs) ==
    IF cs = {} THEN kb
    ELSE LET c == CHOOSE x \in cs : TRUE
         IN  mark_safes(mark_safe(kb, c), cs \ {c})

\* lines 240-249: the body of the resolution loop for the n-th sentence
resolve(kb, n) ==
    LET s   == kb.knowledge[n]
        kb1 == IF all_mines(s) THEN mark_mines(kb, s.cells) ELSE kb
        s1  == kb1.knowledge[n]
    IN  IF all_safes(s1) THEN mark_safes(kb1, s1.cells) ELSE kb1

\* ResolveAnyOrder without the `inferred = True` of lines 242 and 248
ResolveAnyOrder_no_inferred ==
    /\ pc = "resolve"
    /\ \/ \E n \in 1 .. Len(knowledge) :
             /\ resolvable(knowledge[n])
             /\ SetKB(resolve(KB, n))
             /\ UNCHANGED <<pc, must, len0, inferred>>
       \/ /\ \A n \in must : ~resolvable(knowledge[n])
          /\ pc' = "subset"
          /\ must' = {}
          /\ len0' = Len(knowledge)
          /\ UNCHANGED <<mines, safes, knowledge, inferred>>
    /\ UNCHANGED <<layout, moves_made, cell, count, i, pending, j, k, ret,
                   self, reobserved, start, first>>

\* lines 237-249 with the sentences visited in any order: a sentence that
\* became resolvable during the pass was visited before it did, and is left
\* for the next pass, or after, and is resolved now.
ResolveAnyOrder ==
    /\ pc = "resolve"
    /\ \/ \E n \in 1 .. Len(knowledge) :
             /\ resolvable(knowledge[n])
             /\ SetKB(resolve(KB, n))
             /\ inferred' = TRUE
             /\ UNCHANGED <<pc, must, len0>>
       \/ /\ \A n \in must : ~resolvable(knowledge[n])
          /\ pc' = "subset"
          /\ must' = {}
          /\ len0' = Len(knowledge)
          /\ UNCHANGED <<mines, safes, knowledge, inferred>>
    /\ UNCHANGED <<layout, moves_made, cell, count, i, pending, j, k, ret,
                   self, reobserved, start, first>>

\* lines 255-273 with the pairs processed in any order: every pair of
\* sentences the list held when the pass began is processed, a pair with an
\* appended sentence now or in the next pass. A pair that appends nothing
\* when it is processed changes nothing.
SubsetAnyOrder ==
    /\ pc = "subset"
    /\ \/ \E a \in 1 .. Len(knowledge), b \in 1 .. Len(knowledge) :
             /\ Appends(knowledge, a, b)
             /\ knowledge' =
                   Append(knowledge, new_sentence(knowledge[a], knowledge[b]))
             /\ inferred' = TRUE
             /\ UNCHANGED <<pc, len0>>
       \/ /\ \A a \in 1 .. len0, b \in 1 .. len0 : ~Appends(knowledge, a, b)
          /\ pc' = "while"
          /\ len0' = 0
          /\ UNCHANGED <<knowledge, inferred>>
    /\ UNCHANGED <<layout, moves_made, mines, safes, cell, count, i, pending,
                   j, k, ret, self, reobserved, must, start, first>>

NextAnyOrder ==
    \/ \E c \in Cells : ObserveAnyOrder(c)
    \/ BuildSentence
    \/ WhileAnyOrder
    \/ ResolveAnyOrder
    \/ SubsetAnyOrder

SpecAnyOrder == Init /\ [][NextAnyOrder]_vars

-----------------------------------------------------------------------------
\* class Sentence on its own: a Sentence is constructed and its two mutators
\* are called on it, with any cell.

\* Sentence(cells, count) for the cell sets of at most MaxCells cells and the
\* counts from 0 to the number of cells
SentenceObjects ==
    UNION {{Sentence(cs, n) : n \in 0 .. Cardinality(cs)} :
              cs \in {x \in SUBSET Cells : Cardinality(x) <= MaxCells}}

InitSentence ==
    /\ layout = {}
    /\ moves_made = {}
    /\ mines = {}
    /\ safes = {}
    /\ knowledge = <<>>
    /\ pc = "idle"
    /\ cell = None
    /\ count = 0
    /\ inferred = FALSE
    /\ i = 0
    /\ pending = {}
    /\ j = 0
    /\ k = 0
    /\ ret = None
    /\ self \in SentenceObjects
    /\ reobserved = 0
    /\ must = {}
    /\ len0 = 0
    /\ start = None
    /\ first = None

\* self.mark_mine(cell), lines 116-124
SentenceMarkMine(c) ==
    /\ self' = Sentence_mark_mine(self, c)
    /\ cell' = c
    /\ pc' = "Sentence.mark_mine"
    /\ UNCHANGED <<layout, kbvars, count, inferred, i, pending, j, k, ret,
                   reobserved, order>>

\* self.mark_safe(cell), lines 126-134
SentenceMarkSafe(c) ==
    /\ self' = Sentence_mark_safe(self, c)
    /\ cell' = c
    /\ pc' = "Sentence.mark_safe"
    /\ UNCHANGED <<layout, kbvars, count, inferred, i, pending, j, k, ret,
                   reobserved, order>>

NextSentence ==
    \/ \E c \in Cells : SentenceMarkMine(c)
    \/ \E c \in Cells : SentenceMarkSafe(c)

SpecSentence == InitSentence /\ [][NextSentence]_vars

-----------------------------------------------------------------------------
\* Properties

Sentences == {knowledge[n] : n \in 1 .. Len(knowledge)}

\* A sentence the subset pass derived is in knowledge: every call appends at
\* most one sentence built from its observation.
HasDerived == Len(knowledge) > Cardinality(moves_made)

\* C1 (soundness): under truthful observations of distinct cells that are not
\* mines, every cell in `mines` is a mine of the layout and no cell in
\* `safes` is one.
C1_Soundness ==
    /\ mines \subseteq layout
    /\ safes \cap layout = {}

\* a call has returned having deduced mines and safe cells never revealed
C1_Witness ==
    /\ pc = "idle"
    /\ mines # {}
    /\ safes \ moves_made # {}

\* C2: `safes` and `mines` are disjoint in every state, the states between
\* two mark_mine / mark_safe calls of the inference loop included.
C2_Disjoint == safes \cap mines = {}

\* in the middle of a marking loop, with mines and safes both deduced
C2_Witness ==
    /\ pc \in {"mines", "safes"}
    /\ mines # {}
    /\ safes \ moves_made # {}

\* C3: every sentence in knowledge has 0 <= count <= |cells|, also between
\* two marks and after each append of a derived sentence.
C3_CountInRange ==
    \A s \in Sentences : 0 <= s.count /\ s.count <= Cardinality(s.cells)

\* a derived sentence is present while a sentence is being shrunk in place
C3_Witness ==
    /\ HasDerived
    /\ pc \in {"mines", "safes"}
    /\ \E s \in Sentences : s.cells # {} /\ s.count > 0

\* C4 (termination): every add_knowledge call that has begun returns (calls
\* begin only between calls, so the knowledge base is idle again and again);
\* the `while inferred` loop, subset pass included, exits.
C4_Terminates == []<>(pc = "idle")

\* a call has returned after a pass of its loop appended a derived sentence,
\* so the loop ran at least twice
C4_Witness ==
    /\ pc = "idle"
    /\ HasDerived
    /\ Cardinality(moves_made) = MaxMoves

\* C5: make_safe_move returns a cell of safes that is neither in mines nor
\* in moves_made when there is one, and None exactly when there is none.
C5_SafeMove ==
    pc = "make_safe_move" =>
        IF (safes \ mines) \ moves_made = {}
          THEN ret = None
          ELSE ret \in safes /\ ret \notin mines /\ ret \notin moves_made

\* a safe move is returned while mines are known and moves have been made
C5_Witness ==
    /\ pc = "make_safe_move"
    /\ ret # None
    /\ mines # {}
    /\ moves_made # {}

\* C6: make_random_move returns only a board cell that is in neither
\* moves_made nor mines, None exactly when every cell of the board is in one
\* of them, and every such cell is a possible result.
C6_RandomMove ==
    /\ pc = "make_random_move" =>
          IF \A c \in Cells : c \in moves_made \/ c \in mines
            THEN ret = None
            ELSE ret \in Cells /\ ret \notin moves_made /\ ret \notin mines
    /\ pc = "idle" =>
          \A c \in Cells :
              (c \notin moves_made /\ c \notin mines)
                  => ENABLED (MakeRandomMove /\ ret' = c)

\* the whole board is revealed or known to be mined, and None is returned
C6_Witness ==
    /\ pc = "make_random_move"
    /\ ret = None
    /\ moves_made # {}
    /\ mines # {}

\* C7: a step that is make_safe_move or make_random_move leaves safes,
\* mines, moves_made and every sentence of knowledge unchanged.
C7_PureQueries ==
    [][pc' \in {"make_safe_move", "make_random_move"}
          => UNCHANGED <<safes, mines, moves_made, knowledge>>]_vars

\* a query has returned a cell while sentences are held
C7_Witness ==
    /\ pc \in {"make_safe_move", "make_random_move"}
    /\ ret # None
    /\ \E s \in Sentences : s.cells # {}

\* C8 (monotonicity): no step of any operation removes a cell from mines,
\* safes or moves_made.
C8_Monotone ==
    [][/\ mines \subseteq mines'
       /\ safes \subseteq safes'
       /\ moves_made \subseteq moves_made']_vars

\* all three sets have grown and a call is marking further cells safe
C8_Witness ==
    /\ pc = "safes"
    /\ mines # {}
    /\ Cardinality(safes) > 1
    /\ Cardinality(moves_made) > 1

\* C9 (idempotence): mark_mine twice gives the state mark_mine once gives,
\* and so for mark_safe, on the knowledge base and on each single sentence:
\* for every cell in every state between two calls, and for the cells a
\* running call is about to mark in the states where it marks them.
C9_Idempotent ==
    \A c \in (IF pc = "idle" THEN Cells ELSE pending) :
        LET mined == mark_mine(KB, c)
            saved == mark_safe(KB, c)
        IN  /\ mark_mine(mined, c) = mined
            /\ mark_safe(saved, c) = saved
            /\ \A s \in Sentences :
                  /\ Sentence_mark_mine(Sentence_mark_mine(s, c), c)
                        = Sentence_mark_mine(s, c)
                  /\ Sentence_mark_safe(Sentence_mark_safe(s, c), c)
                        = Sentence_mark_safe(s, c)

\* a running call has marked a mine and is about to mark another one that
\* sentences still hold
C9_Witness ==
    /\ pc = "mines"
    /\ mines # {}
    /\ \E c \in pending, s \in Sentences : c \in s.cells /\ s.count > 0

\* C10 (subset closure): when add_knowledge has returned, for any two
\* sentences A, B of knowledge that are not equal, with A.cells non-empty,
\* A.count > 0 and A.cells a subset of B.cells, knowledge holds a sentence
\* equal to (B.cells - A.cells, B.count - A.count).
C10_SubsetClosure ==
    pc = "idle" =>
        \A A \in Sentences, B \in Sentences :
            (A # B /\ A.cells # {} /\ A.count > 0 /\ A.cells \subseteq B.cells)
                => [cells |-> B.cells \ A.cells, count |-> B.count - A.count]
                       \in Sentences

\* a call has returned leaving {a, b} = 1 and a four-cell superset = 2, and
\* with them the derived two-cell sentence = 1
C10_Witness ==
    /\ pc = "idle"
    /\ \E A \in Sentences, B \in Sentences :
          /\ A.count = 1 /\ Cardinality(A.cells) = 2
          /\ B.count = 2 /\ Cardinality(B.cells) = 4
          /\ A.cells \subseteq B.cells
          /\ [cells |-> B.cells \ A.cells, count |-> 1] \in Sentences

\* C11: on a board with no mines, whatever distinct cells are observed (each
\* with count 0), mines stays empty and no sentence ever has a non-zero
\* count, and when a call has returned every in-bounds neighbour of every
\* observed cell is in safes.
C11_NoMines ==
    layout = {} =>
        /\ mines = {}
        /\ \A s \in Sentences : s.count = 0
        /\ pc = "idle" => \A c \in moves_made : Neighbors(c) \subseteq safes

\* two cells of the board without mines have been observed
C11_Witness ==
    /\ layout = {}
    /\ pc = "idle"
    /\ Cardinality(moves_made) > 1

\* C13: when an add_knowledge call has returned, moves_made is a subset of
\* safes: every cell passed to add_knowledge is in both sets.
C13_MovesSafe == pc = "idle" => moves_made \subseteq safes

\* two calls have returned and a mine is known
C13_Witness ==
    /\ pc = "idle"
    /\ Cardinality(moves_made) > 1
    /\ mines # {}

\* C16: in every reachable state, every sentence of knowledge (built from
\* an observation, derived, or shrunk in place) has a count equal to the
\* number of mines of the layout among its cells.
C16_SentencesTrue ==
    \A s \in Sentences : s.count = Cardinality(s.cells \cap layout)

\* the subset pass runs with a derived sentence present and a sentence that
\* has both mines and safe cells among its cells
C16_Witness ==
    /\ pc = "subset"
    /\ HasDerived
    /\ \E s \in Sentences : s.count > 0 /\ Cardinality(s.cells) > s.count

\* C19: in every state (each follows a completed mark_mine or mark_safe call
\* or an append), no sentence of knowledge contains a cell of mines or
\* safes.
C19_OnlyUndetermined ==
    \A s \in Sentences : s.cells \cap (mines \cup safes) = {}

\* cells never revealed are known to be safe, a derived sentence has been
\* appended and a sentence still has cells
C19_Witness ==
    /\ HasDerived
    /\ safes \ moves_made # {}
    /\ \E s \in Sentences : s.cells # {}

\* no sentence with cells has count 0 or count = |cells|
Saturated ==
    \A s \in Sentences :
        s.cells # {} => s.count # 0 /\ s.count # Cardinality(s.cells)

\* A step keeps every sentence in knowledge, and a sentence of one of the
\* two resolvable forms keeps that form and loses cells only into the set
\* the form names: safes for count = 0, mines for count = |cells|.
ResolvedInto ==
    /\ Len(knowledge') >= Len(knowledge)
    /\ \A n \in 1 .. Len(knowledge) :
          LET s == knowledge[n]
              t == knowledge'[n]
          IN  /\ (s.cells # {} /\ s.count = 0) =>
                    /\ t.count = 0
                    /\ s.cells \ t.cells \subseteq safes'
              /\ (s.cells # {} /\ s.count = Cardinality(s.cells)) =>
                    /\ t.count = Cardinality(t.cells)
                    /\ s.cells \ t.cells \subseteq mines'

\* C14 (saturation): when add_knowledge has returned, no sentence with cells
\* has count 0 or count = |cells|; and a sentence that reaches one of those
\* forms loses its cells only into safes, respectively mines, so that by the
\* return all of them are there (a new sentence whose cells number its
\* adjusted count has all of them in mines on return).
C14_Saturation ==
    /\ [](pc = "idle" => Saturated)
    /\ [][ResolvedInto]_vars

\* the first call has returned with every neighbour of the observed cell in
\* mines: its sentence had as many cells as its count
C14_Witness ==
    /\ pc = "idle"
    /\ Cardinality(moves_made) = 1
    /\ \E c \in moves_made : Neighbors(c) \subseteq mines

\* C15 (constraint construction): with U the in-bounds cells within one row
\* and column of `cell`, other than `cell`, that are in neither mines nor
\* safes, and k the number of such cells in mines, add_knowledge(cell, count)
\* appends exactly the sentence (U, count - k) when U is not empty and no
\* sentence when it is; count - k lies in 0 .. |U| and so is 0 when U is
\* empty.
C15_Construction ==
    [][pc = "build" =>
          LET N == {n \in Cells : /\ n # cell
                                  /\ n[1] - cell[1] \in {-1, 0, 1}
                                  /\ n[2] - cell[2] \in {-1, 0, 1}}
              U == (N \ mines) \ safes
              a == count - Cardinality(N \cap mines)
          IN  /\ knowledge' = IF U = {} THEN knowledge
                              ELSE Append(knowledge,
                                          [cells |-> U, count |-> a])
              /\ U = {} => a = 0
              /\ 0 <= a /\ a <= Cardinality(U)]_vars

\* a sentence has just been appended for a cell that has a known mine and
\* an unknown mine among its neighbours
C15_Witness ==
    /\ pc = "while"
    /\ cell # None
    /\ i = 0
    /\ Len(knowledge) > 0
    /\ knowledge[Len(knowledge)].count = count
    /\ count > 0
    /\ count < nearby_mines(cell)

\* C17 (resolution progress): whenever the resolution pass is about to call
\* mark_mine or mark_safe, none of the cells it is about to mark is in mines
\* or safes, and the call, which sets `inferred`, strictly grows
\* mines \cup safes.
C17_Progress ==
    [][(pc = "mines" \/ pc = "safes") =>
          /\ pending \cap (mines \cup safes) = {}
          /\ inferred'
          /\ (mines \cup safes) \subseteq (mines' \cup safes')
          /\ (mines \cup safes) # (mines' \cup safes')]_vars

\* the pass has marked a cell safe that was never revealed and is about to
\* mark another
C17_Witness ==
    /\ pc = "safes"
    /\ inferred
    /\ pending # {}
    /\ safes \ moves_made # {}

\* the sentence invariant 0 <= count <= |cells|
SentenceInv(s) == 0 <= s.count /\ s.count <= Cardinality(s.cells)

\* C12 as stated: for every Sentence with 0 <= count <= |cells| and every
\* cell, the sentence still has 0 <= count <= |cells| after
\* Sentence.mark_mine(cell) and after Sentence.mark_safe(cell).
C12_Original == [][SentenceInv(self) => SentenceInv(self')]_vars

\* C12, amended: Sentence.mark_mine(cell) removes the cell and decrements
\* count if the cell is in cells, Sentence.mark_safe(cell) removes the cell
\* and keeps count, and both change nothing otherwise; a sentence with
\* 0 <= count <= |cells| still has it after mark_mine(cell) unless the cell
\* is in cells and count = 0, and after mark_safe(cell) unless the cell is
\* in cells and count = |cells|.
C12_Amended ==
    [][/\ pc' = "Sentence.mark_mine" =>
             /\ self' = IF cell' \in self.cells
                          THEN [cells |-> self.cells \ {cell'},
                                count |-> self.count - 1]
                          ELSE self
             /\ (SentenceInv(self)
                   /\ (cell' \notin self.cells \/ self.count # 0))
                    => SentenceInv(self')
       /\ pc' = "Sentence.mark_safe" =>
             /\ self' = IF cell' \in self.cells
                          THEN [cells |-> self.cells \ {cell'},
                                count |-> self.count]
                          ELSE self
             /\ (SentenceInv(self)
                   /\ (cell' \notin self.cells
                         \/ self.count # Cardinality(self.cells)))
                    => SentenceInv(self')]_vars

\* mark_mine has returned leaving a sentence within the invariant that still
\* has a cell and a mine to find
C12_Witness ==
    /\ pc = "Sentence.mark_mine"
    /\ SentenceInv(self)
    /\ self.cells # {}
    /\ self.count > 0
    /\ cell \notin self.cells

\* C20 (re-observation): from a state reached by truthful observations, a
\* call of add_knowledge for a cell of moves_made with its true count leaves
\* mines, safes and moves_made unchanged at every step and never enters a
\* marking loop; knowledge changes at most by the append of line 228, of a
\* sentence equal to one it already holds.
C20_Reobserve ==
    [][reobserved' > 0 =>
          /\ UNCHANGED <<mines, safes, moves_made>>
          /\ pc' # "mines" /\ pc' # "safes"
          /\ \/ knowledge' = knowledge
             \/ /\ pc = "build"
                /\ \E s \in Sentences : knowledge' = Append(knowledge, s)]_vars

\* a repeated observation has returned after appending a second copy of a
\* sentence that has cells to a knowledge base that holds a derived sentence
C20_Witness ==
    /\ reobserved > 0
    /\ pc = "idle"
    /\ Len(knowledge) > Cardinality(moves_made) + 1
    /\ knowledge[Len(knowledge)].cells # {}
    /\ \E n \in 1 .. Len(knowledge) - 1 :
          knowledge[n] = knowledge[Len(knowledge)]

\* C18 (confluence): from a given knowledge base and truthful observation,
\* add_knowledge ends with the same mines and the same safes whatever the
\* order in which the resolution pass visits the sentences and the subset
\* pass the pairs: any two runs of the call agree.
C18_Confluence ==
    (pc = "idle" /\ first # None) => first = <<mines, safes>>

\* both runs of a third call have returned, with two derived sentences in
\* the list and a mine and an unrevealed safe cell deduced
C18_Witness ==
    /\ pc = "idle"
    /\ first # None
    /\ Cardinality(moves_made) > 2
    /\ Len(knowledge) > Cardinality(moves_made) + 1
    /\ first[1] # {}
    /\ first[2] \ moves_made # {}

=============================================================================
